---- MODULE Spec2Model ----
(***************************************************************************)
(* HealthCare-IMS: the Express routes (server/routes.ts), the storage      *)
(* layer (server/storage.ts) and the PostgreSQL tables (shared/schema.ts,  *)
(* server/migrate.ts) as a state machine.                                  *)
(*                                                                         *)
(* Every route handler is cut at its awaits: the synchronous code up to    *)
(* the first await is one step, and each database statement together with  *)
(* the continuation that consumes its result is one step.  Statements of   *)
(* different requests interleave freely; a single statement is atomic.     *)
(* Text values are sequences of one-character strings so that case,        *)
(* padding and pattern matching are computed, not assumed.                 *)
(***************************************************************************)
EXTENDS Integers, Sequences, FiniteSets, TLC

(* ----------------------------- bounds ---------------------------------- *)
\* last value the serial of programs.id may hand out
MaxProgramSerial == 2
\* last value the serial of clients.id may hand out
MaxClientSerial == 2
\* last value the serial of enrollments.id may hand out
MaxEnrollmentSerial == 2
\* last calendar year the clock reaches
MaxYear == 2026
\* largest "latest client id" the identity-assignment specification starts from
MaxLatestId == 1001
\* number of client rows the identity-assignment specification stores at most
MaxIdentityRows == 3
\* last value the serial of clients.id hands out while the dashboard is read
MaxStatsClients == 1
\* last value the serial of visits.id may hand out
MaxVisitSerial == 1
\* last value the serial of notes.id may hand out
MaxNoteSerial == 2

(* ------------------------------ text ----------------------------------- *)
LowerChars == <<"a","b","c","d","e","f","g","h","i","j","k","l","m",
                "n","o","p","q","r","s","t","u","v","w","x","y","z">>
UpperChars == <<"A","B","C","D","E","F","G","H","I","J","K","L","M",
                "N","O","P","Q","R","S","T","U","V","W","X","Y","Z">>
DigitChars == <<"0","1","2","3","4","5","6","7","8","9">>
WhitespaceChars == {" ", "\t", "\n"}

ToUpperChar(c) ==
    IF \E i \in 1..Len(LowerChars) : LowerChars[i] = c
    THEN UpperChars[CHOOSE i \in 1..Len(LowerChars) : LowerChars[i] = c]
    ELSE c

ToLowerChar(c) ==
    IF \E i \in 1..Len(UpperChars) : UpperChars[i] = c
    THEN LowerChars[CHOOSE i \in 1..Len(UpperChars) : UpperChars[i] = c]
    ELSE c

\* String.prototype.toUpperCase
toUpperCase(s) == [i \in 1..Len(s) |-> ToUpperChar(s[i])]

\* lower-casing, as ILIKE folds case
toLowerCase(s) == [i \in 1..Len(s) |-> ToLowerChar(s[i])]

\* String(n) for a non-negative integer
RECURSIVE String(_)
String(n) ==
    IF n < 10 THEN <<DigitChars[n + 1]>>
    ELSE String(n \div 10) \o <<DigitChars[(n % 10) + 1]>>

\* mutant: the sequence number is not padded
padStart_NoPad(s, targetLength, padChar) == s

\* String.prototype.padStart(targetLength, padString) with a one-character pad
RECURSIVE padStart(_, _, _)
padStart(s, targetLength, padChar) ==
    IF Len(s) >= targetLength THEN s
    ELSE padStart(<<padChar>> \o s, targetLength, padChar)

\* the JavaScript value undefined (an omitted optional field)
Undefined == <<"undefined">>

\* !x for a string-or-undefined value
Falsy(x) == x = Undefined \/ x = <<>>

\* the number of decimal digits a text consists of, or -1 if some character is no digit
IsDigitChar(c) == \E i \in 1..Len(DigitChars) : DigitChars[i] = c
AllDigits(s) == \A i \in 1..Len(s) : IsDigitChar(s[i])

\* a text consisting only of white space (the empty text included)
Blank(s) == \A i \in 1..Len(s) : s[i] \in WhitespaceChars

\* PostgreSQL LIKE on already case-folded operands: % any run, _ any one character
RECURSIVE LikeMatch(_, _)
LikeMatch(s, p) ==
    IF p = <<>> THEN s = <<>>
    ELSE IF Head(p) = "%"
         THEN LikeMatch(s, Tail(p)) \/ (s # <<>> /\ LikeMatch(Tail(s), p))
    ELSE IF s = <<>> THEN FALSE
    ELSE (Head(p) = "_" \/ Head(p) = Head(s)) /\ LikeMatch(Tail(s), Tail(p))

\* PostgreSQL ILIKE
ILike(s, p) == LikeMatch(toLowerCase(s), toLowerCase(p))

\* String.prototype.includes on texts cut into words
Includes(s, sub) ==
    \E i \in 0..(Len(s) - Len(sub)) : SubSeq(s, i + 1, i + Len(sub)) = sub

DigitValue(c) == (CHOOSE i \in 1..Len(DigitChars) : DigitChars[i] = c) - 1

\* parseInt(s): the number spelled by the leading decimal digits, NaN without one
RECURSIVE ParseDigits(_, _)
ParseDigits(s, acc) ==
    IF s = <<>> \/ ~IsDigitChar(Head(s)) THEN acc
    ELSE ParseDigits(Tail(s), acc * 10 + DigitValue(Head(s)))

parseInt(s) ==
    IF s = <<>> \/ ~IsDigitChar(Head(s)) THEN [nan |-> TRUE, val |-> 0]
    ELSE [nan |-> FALSE, val |-> ParseDigits(s, 0)]

(* ------------------------------ state ---------------------------------- *)
VARIABLES
    programs,           \* rows of table programs
    programSerial,      \* last value handed out by the serial of programs.id
    clients,            \* rows of table clients
    clientSerial,       \* last value handed out by the serial of clients.id
    enrollments,        \* rows of table enrollments
    enrollmentSerial,   \* last value handed out by the serial of enrollments.id
    visits,             \* rows of table visits
    visitSerial,        \* last value handed out by the serial of visits.id
    notes,              \* rows of table notes
    noteSerial,         \* last value handed out by the serial of notes.id
    year,               \* new Date().getFullYear()
    reqs,               \* the requests in flight, by connection
    sent                \* the response sent by the step just taken, if any

records == <<visits, visitSerial, notes, noteSerial>>
db == <<programs, programSerial, clients, clientSerial, enrollments, enrollmentSerial,
        visits, visitSerial, notes, noteSerial>>
vars == <<programs, programSerial, clients, clientSerial, enrollments, enrollmentSerial,
          visits, visitSerial, notes, noteSerial, year, reqs, sent>>

\* the connections requests arrive on: two requests can be in flight at a time
Conns == {"c1", "c2"}
\* the connection of a client that waits for each answer before it asks again
GateConns == {"c1"}
Idle == [route |-> "idle"]
NoResp == [route |-> "none", input |-> <<>>, status |-> 0, message |-> <<>>, body |-> {}]

(* ------------------------- request inputs ------------------------------ *)
ProgramCodes == { <<"t","b">>, <<"T","B">> }
\* bodies of POST /api/programs; the last one lacks the required code
ProgramBodies == { [code |-> c] : c \in ProgramCodes } \cup { [name |-> <<"n">>] }

\* the bodies the program form sends for one program: the code in upper case
FormProgramBodies == { [code |-> <<"T","B">>], [name |-> <<"n">>] }

ClientPrefix == <<"H","I","S">>
\* `${clientIdPrefix}-${year}-${paddedId}`
FormatClientId(y, nextId) ==
    ClientPrefix \o <<"-">> \o String(y) \o <<"-">> \o padStart(String(nextId), 3, "0")

ClientNames == { <<"J","o"," ","D">>, <<"a","l">> }
SuppliedClientIds == { Undefined, <<>>, FormatClientId(MaxYear, 2) }
\* bodies of POST /api/clients; the last one lacks the required name
ClientBodies ==
    { [clientId |-> i, name |-> n, phone |-> <<"0","7">>] :
        i \in SuppliedClientIds, n \in ClientNames }
    \cup { [phone |-> <<"0","7">>] }
\* the bodies the registration form sends: no clientId
FormClientBodies == { [clientId |-> Undefined, name |-> <<"a","l">>, phone |-> <<"0","7">>] }

\* the body of the registration form and a body that lacks the required name
GateClientBodies == FormClientBodies \cup { [phone |-> <<"0","7">>] }

\* the enrollDate the bodies carry
EnrollDate == <<"2","0","2","5","-","0","1","-","0","1">>

\* bodies of POST /api/enrollments; the last one lacks the required programId
EnrollmentBodies ==
    { [clientId |-> c, programId |-> p, enrollDate |-> EnrollDate] :
        c \in 1..2, p \in 1..2 }
    \cup { [clientId |-> 1, programId |-> 1, enrollDate |-> EnrollDate,
             status |-> "completed"] }
    \cup { [clientId |-> 1] }

\* path parameters of DELETE /api/clients/:clientId/programs/:programId; the last
\* ones are no numbers
PathParams ==
    { [clientId |-> String(c), programId |-> String(p)] : c \in 1..2, p \in 1..2 }
    \cup { [clientId |-> <<"x">>, programId |-> String(1)],
           [clientId |-> String(1), programId |-> <<"x">>] }

\* bodies of POST /api/visits; the second program is never registered where these
\* are used, and the last body lacks the required fields
VisitBodies ==
    { [clientId |-> 1, programId |-> p, doctor |-> <<"d">>, purpose |-> <<"p">>] :
        p \in 1..2 }
    \cup { [clientId |-> 1] }

\* bodies of POST /api/notes: with a program, without one, and without the required
\* content
NoteBodies ==
    { [clientId |-> 1, programId |-> 1, content |-> <<"c">>, createdBy |-> <<"u">>],
      [clientId |-> 1, content |-> <<"c">>, createdBy |-> <<"u">>],
      [clientId |-> 1] }

\* :id of GET /api/clients/:id/details
DetailsParams == { String(1), String(2), <<"x">> }

\* the one enrollment the clinical records are read against, and a body without the
\* required programId
RecordsEnrollmentBodies ==
    { [clientId |-> 1, programId |-> 1, enrollDate |-> EnrollDate], [clientId |-> 1] }

\* bodies of POST /api/enrollments with an assessment: one as the enrollment form
\* sends it, one with values the form does not offer
AssessmentEnrollmentBodies ==
    { [clientId |-> 1, programId |-> 1, enrollDate |-> EnrollDate,
       symptomSeverity |-> "mild", riskLevel |-> "low"],
      [clientId |-> 1, programId |-> 1, enrollDate |-> EnrollDate,
       symptomSeverity |-> "extreme", riskLevel |-> "unknown"] }

\* what the dashboard figures are read against: one client is enrolled in the first
\* program, as active or as completed, and unenrolled again
StatsEnrollmentBodies ==
    { [clientId |-> 1, programId |-> 1, enrollDate |-> EnrollDate],
      [clientId |-> 1, programId |-> 1, enrollDate |-> EnrollDate,
       status |-> "completed"] }
StatsPathParams == { [clientId |-> String(1), programId |-> String(1)] }

\* ?search= of GET /api/clients
SearchInputs == { Undefined, <<>>, <<" ">>, <<"j","O">>, <<"0">>, <<"_">> }

(* --------------------------- shared/schema.ts --------------------------- *)
\* mutant: the parse accepts every body
safeParse_AcceptAll(required, body) == TRUE

\* zod safeParse of an insert schema: every required field is present
safeParse(required, body) == required \subseteq DOMAIN body

insertProgramSchema == {"code"}
createClientSchema == {"name", "phone"}
\* the schema the enrollment route builds: the other fields are optional
createEnrollmentSchema == {"clientId", "programId", "enrollDate"}
\* date has a default
insertVisitSchema == {"clientId", "programId", "doctor", "purpose"}
\* programId is nullable
insertNoteSchema == {"clientId", "content", "createdBy"}

\* mutant: the program table is declared without its unique constraint
ProgramCodeTaken_NoConstraint(code) == FALSE

\* UNIQUE on programs.code
ProgramCodeTaken(code) == \E p \in programs : p.code = code
\* mutant: the client table is declared without its unique constraint
ClientIdTaken_NoConstraint(clientId) == FALSE

\* UNIQUE on clients.client_id
ClientIdTaken(clientId) == \E c \in clients : c.clientId = clientId
\* mutant: the table is declared without its unique constraint
EnrollmentPairTaken_NoConstraint(clientId, programId) == FALSE

\* UNIQUE(client_id, program_id) on enrollments
EnrollmentPairTaken(clientId, programId) ==
    \E e \in enrollments : e.clientId = clientId /\ e.programId = programId
\* REFERENCES clients(id), REFERENCES programs(id) on enrollments
EnrollmentRefsExist(clientId, programId) ==
    /\ \E c \in clients : c.id = clientId
    /\ \E p \in programs : p.id = programId

\* mutant: the visits table is declared without its foreign keys
VisitRefsExist_NoForeignKey(clientId, programId) == TRUE

\* REFERENCES clients(id), REFERENCES programs(id) on visits
VisitRefsExist(clientId, programId) ==
    /\ \E c \in clients : c.id = clientId
    /\ \E p \in programs : p.id = programId
\* REFERENCES clients(id), REFERENCES programs(id) on notes; program_id may be null
NoteRefsExist(note) ==
    /\ \E c \in clients : c.id = note.clientId
    /\ "programId" \in DOMAIN note => \E p \in programs : p.id = note.programId

\* message of the error PostgreSQL raises for a violated unique constraint
UniqueViolationMessage(constraint) ==
    <<"duplicate", "key", "value", "violates", "unique", "constraint", constraint>>
\* message of the error PostgreSQL raises for a violated foreign key
ForeignKeyViolationMessage(constraint) ==
    <<"insert", "or", "update", "on", "table", "violates", "foreign", "key",
      "constraint", constraint>>

(* --------------------------- server/storage.ts -------------------------- *)
getProgramById(id) == { p \in programs : p.id = id }
getProgramByCode(code) == { p \in programs : p.code = code }
\* mutant: the lookup lost its where clause
getClientById_NoWhere(id) == clients

getClientById(id) == { c \in clients : c.id = id }

\* mutant: the rows are ordered by ascending id
latestClients_Oldest == { c \in clients : \A d \in clients : d.id >= c.id }

\* db.select().from(clients).orderBy(desc(clients.id)).limit(1)
latestClients == { c \in clients : \A d \in clients : d.id <= c.id }

\* the clientId createClient derives from the latest client
generatedClientId(y, latest) ==
    LET nextId == IF latest # {} THEN (CHOOSE c \in latest : TRUE).id + 1 ELSE 1
    IN  FormatClientId(y, nextId)

searchClients(query) ==
    IF Falsy(query) THEN {}
    ELSE LET pattern == <<"%">> \o query \o <<"%">>
         IN  { c \in clients : \/ ILike(c.name, pattern)
                               \/ ILike(c.clientId, pattern)
                               \/ ILike(c.phone, pattern) }

RECURSIVE OrderByIdDesc(_)
OrderByIdDesc(rows) ==
    IF rows = {} THEN <<>>
    ELSE LET top == CHOOSE c \in rows : \A d \in rows : d.id <= c.id
         IN  <<top>> \o OrderByIdDesc(rows \ {top})

\* db.select().from(clients).orderBy(desc(clients.id))
getClients == OrderByIdDesc(clients)

\* db.select().from(programs)
getPrograms == programs

\* mutant: the select keeps the active enrollments only
getEnrollments_ActiveOnly == { e \in enrollments : e.status = "active" }

\* db.select().from(enrollments)
getEnrollments == enrollments

\* select programId, count(*) from enrollments group by programId
enrollmentCounts ==
    { [programId |-> p, count |-> Cardinality({ e \in enrollments : e.programId = p })] :
        p \in { e.programId : e \in enrollments } }

\* enrollmentCountMap.get(id) || 0
enrollmentCountOrZero(counts, id) ==
    IF \E c \in counts : c.programId = id
    THEN (CHOOSE c \in counts : c.programId = id).count
    ELSE 0

\* mutant: the merge keeps the programs the count query returned a row for
withEnrollmentCount_CountedOnly(programList, counts) ==
    { program @@ [enrollmentCount |-> enrollmentCountOrZero(counts, program.id)] :
        program \in { q \in programList : \E c \in counts : c.programId = q.id } }

\* programList.map(program => ({ ...program, enrollmentCount: ... }))
withEnrollmentCount(programList, counts) ==
    { program @@ [enrollmentCount |-> enrollmentCountOrZero(counts, program.id)] :
        program \in programList }

(* ---------------------------- server/routes.ts -------------------------- *)
\* res.status(status).json(...) ends the request on connection r
Respond(r, rq, status, message, body) ==
    /\ sent' = [route |-> rq.route, input |-> rq.input, status |-> status,
                message |-> message, body |-> body]
    /\ reqs' = [reqs EXCEPT ![r] = Idle]

\* the handler on connection r goes on to await the storage call pc
Await(r, rq, pc) ==
    /\ reqs' = [reqs EXCEPT ![r] = [rq EXCEPT !.pc = pc]]
    /\ sent' = NoResp

At(r, route, pc) == reqs[r].route = route /\ reqs[r].pc = pc

\* the access gate in front of the mutating routes; authed is what the session of
\* the request says
isAuthenticated(authed) == authed

Unauthorized == <<"Unauthorized">>

\* the gate answers before the handler, and so before the body is looked at
Reject(r, route) ==
    Respond(r, [route |-> route, input |-> <<>>], 401, Unauthorized, {})
ValidationFailed == <<"Validation", "error">>

(* POST /api/programs *)
PostPrograms == "POST /api/programs"

\* db.insert(programs).values(program).returning(): the rows returned, none when
\* the unique constraint on code rejects the statement
createProgram(program) ==
    IF ProgramCodeTaken(program.code) THEN {}
    ELSE { [id |-> programSerial + 1, code |-> program.code] }

PostPrograms_Begin(r, bodies) ==
    /\ reqs[r] = Idle
    /\ \E authed \in BOOLEAN :
         IF ~isAuthenticated(authed) THEN Reject(r, PostPrograms)
         ELSE \E body \in bodies :
                LET rq == [route |-> PostPrograms, input |-> body, pc |-> "begin",
                          authed |-> authed] IN
                IF ~safeParse(insertProgramSchema, body)
                THEN Respond(r, rq, 400, ValidationFailed, {})
                ELSE Await(r, rq, "getProgramByCode")
    /\ UNCHANGED <<db, year>>

PostPrograms_GetProgramByCode(r) ==
    /\ At(r, PostPrograms, "getProgramByCode")
    /\ LET rq == reqs[r]
           existingProgram == getProgramByCode(rq.input.code)
       IN  IF existingProgram # {}
           THEN Respond(r, rq, 409, <<"Program", "code", "already", "exists">>, {})
           ELSE Await(r, rq, "createProgram")
    /\ UNCHANGED <<db, year>>

PostPrograms_CreateProgram(r) ==
    /\ At(r, PostPrograms, "createProgram")
    /\ programSerial < MaxProgramSerial
    /\ LET rq == reqs[r]
           newProgram == createProgram(rq.input)
       IN  /\ programSerial' = programSerial + 1
           /\ programs' = programs \cup newProgram
           /\ IF newProgram = {}
              THEN Respond(r, rq, 500, <<"Failed", "to", "create", "program">>, {})
              ELSE Respond(r, rq, 201, <<>>, newProgram)
    /\ UNCHANGED <<clients, clientSerial, enrollments, enrollmentSerial, records, year>>

(* POST /api/clients *)
PostClients == "POST /api/clients"

\* db.insert(clients).values({ ...clientData, clientId }).returning(): the rows
\* returned, none when the unique constraint on client_id rejects the statement
insertClient(clientData, clientId) ==
    IF ClientIdTaken(clientId) THEN {}
    ELSE { [id |-> clientSerial + 1, clientId |-> clientId,
            name |-> clientData.name, phone |-> clientData.phone] }

PostClients_Begin(r, bodies) ==
    /\ reqs[r] = Idle
    /\ \E authed \in BOOLEAN :
         IF ~isAuthenticated(authed) THEN Reject(r, PostClients)
         ELSE \E body \in bodies :
                LET rq == [route |-> PostClients, input |-> body, pc |-> "begin",
                          authed |-> authed] IN
                IF ~safeParse(createClientSchema, body)
                THEN Respond(r, rq, 400, ValidationFailed, {})
                ELSE IF Falsy(body.clientId)
                     THEN Await(r, rq @@ [year |-> year], "selectLatest")
                ELSE Await(r, rq @@ [clientId |-> body.clientId], "insertClient")
    /\ UNCHANGED <<db, year>>

PostClients_SelectLatest(r) ==
    /\ At(r, PostClients, "selectLatest")
    /\ LET rq == reqs[r]
           clientId == generatedClientId(rq.year, latestClients)
       IN  Await(r, [route |-> rq.route, input |-> rq.input, pc |-> rq.pc,
                     authed |-> rq.authed, clientId |-> clientId], "insertClient")
    /\ UNCHANGED <<db, year>>

\* room: the bound that lets the model take another insert
PostClients_InsertClient(r, room) ==
    /\ At(r, PostClients, "insertClient")
    /\ room
    /\ LET rq == reqs[r]
           newClient == insertClient(rq.input, rq.clientId)
       IN  /\ clientSerial' = clientSerial + 1
           /\ clients' = clients \cup newClient
           /\ IF newClient = {}
              THEN Respond(r, rq, 500, <<"Failed", "to", "create", "client">>, {})
              ELSE Respond(r, rq, 201, <<>>, newClient)
    /\ UNCHANGED <<programs, programSerial, enrollments, enrollmentSerial, records, year>>

(* GET /api/clients *)
GetClients == "GET /api/clients"

GetClients_Begin(r, searches) ==
    /\ reqs[r] = Idle
    /\ \E search \in searches :
         LET rq == [route |-> GetClients, input |-> search, pc |-> "begin"] IN
         IF ~Falsy(search) THEN Await(r, rq, "searchClients")
         ELSE Await(r, rq, "getClients")
    /\ UNCHANGED <<db, year>>

GetClients_SearchClients(r) ==
    /\ At(r, GetClients, "searchClients")
    /\ Respond(r, reqs[r], 200, <<>>, searchClients(reqs[r].input))
    /\ UNCHANGED <<db, year>>

GetClients_GetClients(r) ==
    /\ At(r, GetClients, "getClients")
    /\ Respond(r, reqs[r], 200, <<>>, getClients)
    /\ UNCHANGED <<db, year>>

(* POST /api/enrollments *)
PostEnrollments == "POST /api/enrollments"

\* mutant: the status column defaults to 'pending'
createEnrollment_DefaultPending(enrollment) ==
    IF EnrollmentPairTaken(enrollment.clientId, enrollment.programId)
    THEN [rows |-> {},
          error |-> UniqueViolationMessage("enrollments_client_id_program_id_unique")]
    ELSE IF ~EnrollmentRefsExist(enrollment.clientId, enrollment.programId)
    THEN [rows |-> {},
          error |-> ForeignKeyViolationMessage("enrollments_client_id_clients_id_fk")]
    ELSE [rows |-> { [id |-> enrollmentSerial + 1,
                      status |-> IF "status" \in DOMAIN enrollment
                                 THEN enrollment.status ELSE "pending"]
                     @@ enrollment },
          error |-> <<>>]

\* db.insert(enrollments).values(enrollment).returning(): the rows returned and the
\* message of the error thrown; status defaults to 'active'
createEnrollment(enrollment) ==
    IF EnrollmentPairTaken(enrollment.clientId, enrollment.programId)
    THEN [rows |-> {},
          error |-> UniqueViolationMessage("enrollments_client_id_program_id_unique")]
    ELSE IF ~EnrollmentRefsExist(enrollment.clientId, enrollment.programId)
    THEN [rows |-> {},
          error |-> ForeignKeyViolationMessage("enrollments_client_id_clients_id_fk")]
    ELSE [rows |-> { [id |-> enrollmentSerial + 1,
                      status |-> IF "status" \in DOMAIN enrollment
                                 THEN enrollment.status ELSE "active"]
                     @@ enrollment },
          error |-> <<>>]

PostEnrollments_Begin(r, bodies) ==
    /\ reqs[r] = Idle
    /\ \E authed \in BOOLEAN :
         IF ~isAuthenticated(authed) THEN Reject(r, PostEnrollments)
         ELSE \E body \in bodies :
                LET rq == [route |-> PostEnrollments, input |-> body, pc |-> "begin",
                          authed |-> authed] IN
                IF ~safeParse(createEnrollmentSchema, body)
                THEN Respond(r, rq, 400, ValidationFailed, {})
                ELSE Await(r, rq, "getClientById")
    /\ UNCHANGED <<db, year>>

PostEnrollments_GetClientById(r) ==
    /\ At(r, PostEnrollments, "getClientById")
    /\ LET rq == reqs[r]
           client == getClientById(rq.input.clientId)
       IN  IF client = {}
           THEN Respond(r, rq, 404, <<"Client", "not", "found">>, {})
           ELSE Await(r, rq, "getProgramById")
    /\ UNCHANGED <<db, year>>

PostEnrollments_GetProgramById(r) ==
    /\ At(r, PostEnrollments, "getProgramById")
    /\ LET rq == reqs[r]
           program == getProgramById(rq.input.programId)
       IN  IF program = {}
           THEN Respond(r, rq, 404, <<"Program", "not", "found">>, {})
           ELSE Await(r, rq, "createEnrollment")
    /\ UNCHANGED <<db, year>>

\* mutant: the inner catch neither answers nor rethrows an error it does not know
PostEnrollments_CreateEnrollment_Swallow(r) ==
    /\ At(r, PostEnrollments, "createEnrollment")
    /\ enrollmentSerial < MaxEnrollmentSerial
    /\ LET rq == reqs[r]
           result == createEnrollment(rq.input)
       IN  /\ enrollmentSerial' = enrollmentSerial + 1
           /\ enrollments' = enrollments \cup result.rows
           /\ IF result.rows # {} THEN Respond(r, rq, 201, <<>>, result.rows)
              ELSE IF Includes(result.error, <<"already", "enrolled">>)
                   THEN Respond(r, rq, 409, result.error, {})
              ELSE Await(r, rq, "swallowed")
    /\ UNCHANGED <<programs, programSerial, clients, clientSerial, records, year>>

PostEnrollments_CreateEnrollment(r) ==
    /\ At(r, PostEnrollments, "createEnrollment")
    /\ enrollmentSerial < MaxEnrollmentSerial
    /\ LET rq == reqs[r]
           result == createEnrollment(rq.input)
       IN  /\ enrollmentSerial' = enrollmentSerial + 1
           /\ enrollments' = enrollments \cup result.rows
           /\ IF result.rows # {} THEN Respond(r, rq, 201, <<>>, result.rows)
              ELSE IF Includes(result.error, <<"already", "enrolled">>)
                   THEN Respond(r, rq, 409, result.error, {})
              ELSE Respond(r, rq, 500, <<"Failed", "to", "create", "enrollment">>, {})
    /\ UNCHANGED <<programs, programSerial, clients, clientSerial, records, year>>

(* DELETE /api/clients/:clientId/programs/:programId *)
DeleteEnrollment == "DELETE /api/clients/:clientId/programs/:programId"

\* mutant: the delete matches on the program alone
deleteEnrollment_ProgramOnly(clientId, programId) ==
    { e \in enrollments : e.programId = programId }

\* mutant: the delete matches on the client alone
deleteEnrollment_ClientOnly(clientId, programId) ==
    { e \in enrollments : e.clientId = clientId }

\* the rows db.delete(enrollments).where(and(eq clientId, eq programId)) removes
deleteEnrollment(clientId, programId) ==
    { e \in enrollments : e.clientId = clientId /\ e.programId = programId }

DeleteEnrollment_Begin(r, paths) ==
    /\ reqs[r] = Idle
    /\ \E authed \in BOOLEAN :
         IF ~isAuthenticated(authed) THEN Reject(r, DeleteEnrollment)
         ELSE \E params \in paths :
                LET rq == [route |-> DeleteEnrollment, input |-> params, pc |-> "begin",
                           authed |-> authed]
                    clientId == parseInt(params.clientId)
                    programId == parseInt(params.programId)
                IN  IF clientId.nan \/ programId.nan
                    THEN Respond(r, rq, 400,
                                 <<"Invalid", "client", "ID", "or", "program", "ID">>, {})
                    ELSE Await(r, rq @@ [clientId |-> clientId.val,
                                         programId |-> programId.val],
                               "deleteEnrollment")
    /\ UNCHANGED <<db, year>>

DeleteEnrollment_DeleteEnrollment(r) ==
    /\ At(r, DeleteEnrollment, "deleteEnrollment")
    /\ LET rq == reqs[r]
           result == deleteEnrollment(rq.clientId, rq.programId)
           success == Cardinality(result) > 0
       IN  /\ enrollments' = enrollments \ result
           /\ IF ~success
              THEN Respond(r, rq, 404, <<"Enrollment", "not", "found">>, {})
              ELSE Respond(r, rq, 204, <<>>, {})
    /\ UNCHANGED <<programs, programSerial, clients, clientSerial, enrollmentSerial,
                   records, year>>

(* POST /api/visits *)
PostVisits == "POST /api/visits"

\* db.insert(visits).values(visit).returning(): the rows returned, none when a
\* foreign key rejects the statement
createVisit(visit) ==
    IF ~VisitRefsExist(visit.clientId, visit.programId) THEN {}
    ELSE { [id |-> visitSerial + 1, clientId |-> visit.clientId,
            programId |-> visit.programId, doctor |-> visit.doctor,
            purpose |-> visit.purpose] }

PostVisits_Begin(r, bodies) ==
    /\ reqs[r] = Idle
    /\ \E authed \in BOOLEAN :
         IF ~isAuthenticated(authed) THEN Reject(r, PostVisits)
         ELSE \E body \in bodies :
                LET rq == [route |-> PostVisits, input |-> body, pc |-> "begin",
                           authed |-> authed] IN
                IF ~safeParse(insertVisitSchema, body)
                THEN Respond(r, rq, 400, ValidationFailed, {})
                ELSE Await(r, rq, "createVisit")
    /\ UNCHANGED <<db, year>>

PostVisits_CreateVisit(r) ==
    /\ At(r, PostVisits, "createVisit")
    /\ visitSerial < MaxVisitSerial
    /\ LET rq == reqs[r]
           newVisit == createVisit(rq.input)
       IN  /\ visitSerial' = visitSerial + 1
           /\ visits' = visits \cup newVisit
           /\ IF newVisit = {}
              THEN Respond(r, rq, 500, <<"Failed", "to", "create", "visit">>, {})
              ELSE Respond(r, rq, 201, <<>>, newVisit)
    /\ UNCHANGED <<programs, programSerial, clients, clientSerial, enrollments,
                   enrollmentSerial, notes, noteSerial, year>>

(* POST /api/notes *)
PostNotes == "POST /api/notes"

\* db.insert(notes).values(note).returning(): the rows returned, none when a
\* foreign key rejects the statement; a note without programId has none stored
createNote(note) ==
    IF ~NoteRefsExist(note) THEN {}
    ELSE { [id |-> noteSerial + 1] @@ note }

\* mutant: the statement replaces the notes of the table
notesAfterInsert_Replace(newNote) == newNote

\* table notes after the insert
notesAfterInsert(newNote) == notes \cup newNote

\* mutant: the route is registered without the gate
PostNotes_Begin_NoGate(r, bodies) ==
    /\ reqs[r] = Idle
    /\ \E authed \in BOOLEAN, body \in bodies :
         LET rq == [route |-> PostNotes, input |-> body, pc |-> "begin",
                    authed |-> authed] IN
         IF ~safeParse(insertNoteSchema, body)
         THEN Respond(r, rq, 400, ValidationFailed, {})
         ELSE Await(r, rq, "createNote")
    /\ UNCHANGED <<db, year>>

PostNotes_Begin(r, bodies) ==
    /\ reqs[r] = Idle
    /\ \E authed \in BOOLEAN :
         IF ~isAuthenticated(authed) THEN Reject(r, PostNotes)
         ELSE \E body \in bodies :
                LET rq == [route |-> PostNotes, input |-> body, pc |-> "begin",
                           authed |-> authed] IN
                IF ~safeParse(insertNoteSchema, body)
                THEN Respond(r, rq, 400, ValidationFailed, {})
                ELSE Await(r, rq, "createNote")
    /\ UNCHANGED <<db, year>>

PostNotes_CreateNote(r) ==
    /\ At(r, PostNotes, "createNote")
    /\ noteSerial < MaxNoteSerial
    /\ LET rq == reqs[r]
           newNote == createNote(rq.input)
       IN  /\ noteSerial' = noteSerial + 1
           /\ notes' = notesAfterInsert(newNote)
           /\ IF newNote = {}
              THEN Respond(r, rq, 500, <<"Failed", "to", "create", "note">>, {})
              ELSE Respond(r, rq, 201, <<>>, newNote)
    /\ UNCHANGED <<programs, programSerial, clients, clientSerial, enrollments,
                   enrollmentSerial, visits, visitSerial, year>>

(* GET /api/clients/:id/details *)
GetClientDetails == "GET /api/clients/:id/details"

\* mutant: the join matches the program on the enrollment's own id
getEnrollmentsByClientId_JoinOnId(clientId) ==
    { x[1] @@ [program |-> x[2]] :
        x \in { y \in enrollments \X programs :
                  y[1].id = y[2].id /\ y[1].clientId = clientId } }

\* enrollments inner join programs on programId, of one client
getEnrollmentsByClientId(clientId) ==
    { x[1] @@ [program |-> x[2]] :
        x \in { y \in enrollments \X programs :
                  y[1].programId = y[2].id /\ y[1].clientId = clientId } }

\* visits inner join programs on programId, of one client
clientVisits(clientId) ==
    { x[1] @@ [program |-> x[2]] :
        x \in { y \in visits \X programs :
                  y[1].programId = y[2].id /\ y[1].clientId = clientId } }

\* the programs a note row joins with
NoteProgram(note) ==
    IF "programId" \in DOMAIN note
    THEN { p \in programs : p.id = note.programId }
    ELSE {}

\* mutant: the notes are joined with an inner join
clientNotes_InnerJoin(clientId) ==
    { x[1] @@ [program |-> x[2]] :
        x \in { y \in notes \X programs :
                  y[1].clientId = clientId /\ y[2] \in NoteProgram(y[1]) } }

\* notes left join programs on programId, of one client; program: program ||
\* undefined leaves the note of an unmatched row without a program
clientNotes(clientId) ==
    { x[1] @@ [program |-> x[2]] :
        x \in { y \in notes \X programs :
                  y[1].clientId = clientId /\ y[2] \in NoteProgram(y[1]) } }
    \cup { n \in notes : n.clientId = clientId /\ NoteProgram(n) = {} }

GetClientDetails_Begin(r, params) ==
    /\ reqs[r] = Idle
    /\ \E param \in params :
         LET rq == [route |-> GetClientDetails, input |-> param, pc |-> "begin"]
             id == parseInt(param)
         IN  IF id.nan
             THEN Respond(r, rq, 400, <<"Invalid", "client", "ID">>, {})
             ELSE Await(r, rq @@ [id |-> id.val], "getClientById")
    /\ UNCHANGED <<db, year>>

GetClientDetails_GetClientById(r) ==
    /\ At(r, GetClientDetails, "getClientById")
    /\ LET rq == reqs[r]
           client == getClientById(rq.id)
       IN  IF client = {}
           THEN Respond(r, rq, 404, <<"Client", "not", "found">>, {})
           ELSE Await(r, rq @@ [client |-> CHOOSE c \in client : TRUE],
                      "getEnrollmentsByClientId")
    /\ UNCHANGED <<db, year>>

GetClientDetails_GetEnrollmentsByClientId(r) ==
    /\ At(r, GetClientDetails, "getEnrollmentsByClientId")
    /\ Await(r, reqs[r] @@ [enrollments |-> getEnrollmentsByClientId(reqs[r].id)],
             "visits")
    /\ UNCHANGED <<db, year>>

GetClientDetails_Visits(r) ==
    /\ At(r, GetClientDetails, "visits")
    /\ Await(r, reqs[r] @@ [visits |-> clientVisits(reqs[r].id)], "notes")
    /\ UNCHANGED <<db, year>>

GetClientDetails_Notes(r) ==
    /\ At(r, GetClientDetails, "notes")
    /\ LET rq == reqs[r]
           clientDetails == rq.client @@ [enrollments |-> rq.enrollments,
                                          visits |-> rq.visits,
                                          notes |-> clientNotes(rq.id)]
       IN  Respond(r, rq, 200, <<>>, clientDetails)
    /\ UNCHANGED <<db, year>>

(* DELETE /api/programs/:id and DELETE /api/clients/:id, which the pages send *)
DeleteProgram == "DELETE /api/programs/:id"
DeleteClient == "DELETE /api/clients/:id"

\* what answers a request no registered route matches: the middleware mounted after
\* the routes, which serves the page (200), or Express itself (404)
UnroutedStatuses == {200, 404}

\* registerRoutes has no route for the request: no handler and no storage call runs
Unrouted(r, route, params) ==
    /\ reqs[r] = Idle
    /\ \E param \in params, status \in UnroutedStatuses :
         Respond(r, [route |-> route, input |-> param], status, <<>>, {})
    /\ UNCHANGED <<db, year>>

DeleteProgram_Unrouted(r, params) == Unrouted(r, DeleteProgram, params)

DeleteClient_Unrouted(r, params) == Unrouted(r, DeleteClient, params)

(* GET /api/programs/stats *)
GetProgramsStats == "GET /api/programs/stats"

GetProgramsStats_Begin(r) ==
    /\ reqs[r] = Idle
    /\ \E authed \in BOOLEAN :
         IF ~isAuthenticated(authed) THEN Reject(r, GetProgramsStats)
         ELSE Await(r, [route |-> GetProgramsStats, input |-> <<>>, pc |-> "begin",
                        authed |-> authed], "getPrograms")
    /\ UNCHANGED <<db, year>>

\* getProgramsWithEnrollmentCount, first statement
GetProgramsStats_GetPrograms(r) ==
    /\ At(r, GetProgramsStats, "getPrograms")
    /\ Await(r, reqs[r] @@ [programList |-> getPrograms], "enrollmentCounts")
    /\ UNCHANGED <<db, year>>

\* getProgramsWithEnrollmentCount, second statement and the merge
GetProgramsStats_EnrollmentCounts(r) ==
    /\ At(r, GetProgramsStats, "enrollmentCounts")
    /\ Respond(r, reqs[r], 200, <<>>,
               withEnrollmentCount(reqs[r].programList, enrollmentCounts))
    /\ UNCHANGED <<db, year>>

(* GET /api/stats *)
GetStats == "GET /api/stats"

GetStats_Begin(r) ==
    /\ reqs[r] = Idle
    /\ Await(r, [route |-> GetStats, input |-> <<>>, pc |-> "begin"], "getClients")
    /\ UNCHANGED <<db, year>>

GetStats_GetClients(r) ==
    /\ At(r, GetStats, "getClients")
    /\ Await(r, reqs[r] @@ [clients |-> getClients], "getPrograms")
    /\ UNCHANGED <<db, year>>

GetStats_GetPrograms(r) ==
    /\ At(r, GetStats, "getPrograms")
    /\ Await(r, reqs[r] @@ [programs |-> getPrograms], "getEnrollments")
    /\ UNCHANGED <<db, year>>

GetStats_GetEnrollments(r) ==
    /\ At(r, GetStats, "getEnrollments")
    /\ LET rq == reqs[r]
           stats == [totalClients |-> Len(rq.clients),
                     activePrograms |-> Cardinality(rq.programs),
                     newEnrollments |-> Cardinality(getEnrollments)]
       IN  Respond(r, rq, 200, <<>>, stats)
    /\ UNCHANGED <<db, year>>

(* the clock *)
NewYear ==
    /\ year < MaxYear
    /\ year' = year + 1
    /\ sent' = NoResp
    /\ UNCHANGED <<db, reqs>>

(* --------------------------- specifications ----------------------------- *)
\* the database right after the schema was pushed, no request in flight
Init ==
    /\ programs = {} /\ programSerial = 0
    /\ clients = {} /\ clientSerial = 0
    /\ enrollments = {} /\ enrollmentSerial = 0
    /\ visits = {} /\ visitSerial = 0
    /\ notes = {} /\ noteSerial = 0
    /\ year = MaxYear - 1
    /\ reqs = [r \in Conns |-> Idle]
    /\ sent = NoResp

\* enrollment integrity: programs and clients are registered, clients are enrolled
\* and unenrolled
Next ==
    \/ \E r \in Conns : PostPrograms_Begin(r, FormProgramBodies)
    \/ \E r \in Conns : PostPrograms_GetProgramByCode(r)
    \/ \E r \in Conns : PostPrograms_CreateProgram(r)
    \/ \E r \in Conns : PostClients_Begin(r, FormClientBodies)
    \/ \E r \in Conns : PostClients_SelectLatest(r)
    \/ \E r \in Conns : PostClients_InsertClient(r, clientSerial < MaxClientSerial)
    \/ \E r \in Conns : PostEnrollments_Begin(r, EnrollmentBodies)
    \/ \E r \in Conns : PostEnrollments_GetClientById(r)
    \/ \E r \in Conns : PostEnrollments_GetProgramById(r)
    \/ \E r \in Conns : PostEnrollments_CreateEnrollment(r)
    \/ \E r \in Conns : DeleteEnrollment_Begin(r, PathParams)
    \/ \E r \in Conns : DeleteEnrollment_DeleteEnrollment(r)

Spec == Init /\ [][Next]_vars

\* the program registry
NextPrograms ==
    \/ \E r \in Conns : PostPrograms_Begin(r, ProgramBodies)
    \/ \E r \in Conns : PostPrograms_GetProgramByCode(r)
    \/ \E r \in Conns : PostPrograms_CreateProgram(r)

SpecPrograms == Init /\ [][NextPrograms]_vars

\* the client registry: registration with and without a clientId, search, the clock
NextClients ==
    \/ \E r \in Conns : PostClients_Begin(r, ClientBodies)
    \/ \E r \in Conns : PostClients_SelectLatest(r)
    \/ \E r \in Conns : PostClients_InsertClient(r, clientSerial < MaxClientSerial)
    \/ \E r \in Conns : GetClients_Begin(r, SearchInputs)
    \/ \E r \in Conns : GetClients_SearchClients(r)
    \/ \E r \in Conns : GetClients_GetClients(r)
    \/ NewYear

SpecClients == Init /\ [][NextClients]_vars

\* the dashboard figures, read while programs and clients are registered and
\* clients are enrolled and unenrolled
NextStats ==
    \/ \E r \in Conns : PostPrograms_Begin(r, ProgramBodies)
    \/ \E r \in Conns : PostPrograms_GetProgramByCode(r)
    \/ \E r \in Conns : PostPrograms_CreateProgram(r)
    \/ \E r \in Conns : PostClients_Begin(r, FormClientBodies)
    \/ \E r \in Conns : PostClients_SelectLatest(r)
    \/ \E r \in Conns : PostClients_InsertClient(r, clientSerial < MaxStatsClients)
    \/ \E r \in Conns : PostEnrollments_Begin(r, StatsEnrollmentBodies)
    \/ \E r \in Conns : PostEnrollments_GetClientById(r)
    \/ \E r \in Conns : PostEnrollments_GetProgramById(r)
    \/ \E r \in Conns : PostEnrollments_CreateEnrollment(r)
    \/ \E r \in Conns : DeleteEnrollment_Begin(r, StatsPathParams)
    \/ \E r \in Conns : DeleteEnrollment_DeleteEnrollment(r)
    \/ \E r \in Conns : GetProgramsStats_Begin(r)
    \/ \E r \in Conns : GetProgramsStats_GetPrograms(r)
    \/ \E r \in Conns : GetProgramsStats_EnrollmentCounts(r)
    \/ \E r \in Conns : GetStats_Begin(r)
    \/ \E r \in Conns : GetStats_GetClients(r)
    \/ \E r \in Conns : GetStats_GetPrograms(r)
    \/ \E r \in Conns : GetStats_GetEnrollments(r)

SpecStats == Init /\ [][NextStats]_vars

\* the store left by the registration of a program and of a client through the
\* forms
InitRecords ==
    /\ programs = { [id |-> 1, code |-> <<"T","B">>] } /\ programSerial = 1
    /\ clients = { [id |-> 1, clientId |-> FormatClientId(MaxYear - 1, 1),
                    name |-> <<"a","l">>, phone |-> <<"0","7">>] }
    /\ clientSerial = 1
    /\ enrollments = {} /\ enrollmentSerial = 0
    /\ visits = {} /\ visitSerial = 0
    /\ notes = {} /\ noteSerial = 0
    /\ year = MaxYear - 1
    /\ reqs = [r \in Conns |-> Idle]
    /\ sent = NoResp

\* the store after that client was enrolled in that program
InitEnrolled ==
    /\ programs = { [id |-> 1, code |-> <<"T","B">>] } /\ programSerial = 1
    /\ clients = { [id |-> 1, clientId |-> FormatClientId(MaxYear - 1, 1),
                    name |-> <<"a","l">>, phone |-> <<"0","7">>] }
    /\ clientSerial = 1
    /\ enrollments = { [id |-> 1, clientId |-> 1, programId |-> 1,
                        enrollDate |-> EnrollDate, status |-> "active"] }
    /\ enrollmentSerial = 1
    /\ visits = {} /\ visitSerial = 0
    /\ notes = {} /\ noteSerial = 0
    /\ year = MaxYear - 1
    /\ reqs = [r \in Conns |-> Idle]
    /\ sent = NoResp

\* the clinical records of an enrolled client: visits and notes are written while
\* the client's details are read
NextRecords ==
    \/ \E r \in Conns : PostVisits_Begin(r, VisitBodies)
    \/ \E r \in Conns : PostVisits_CreateVisit(r)
    \/ \E r \in Conns : PostNotes_Begin(r, NoteBodies)
    \/ \E r \in Conns : PostNotes_CreateNote(r)
    \/ \E r \in Conns : GetClientDetails_Begin(r, DetailsParams)
    \/ \E r \in Conns : GetClientDetails_GetClientById(r)
    \/ \E r \in Conns : GetClientDetails_GetEnrollmentsByClientId(r)
    \/ \E r \in Conns : GetClientDetails_Visits(r)
    \/ \E r \in Conns : GetClientDetails_Notes(r)

SpecRecords == InitEnrolled /\ [][NextRecords]_vars

\* the details of a client read while the client is enrolled and unenrolled
NextDetails ==
    \/ \E r \in Conns : PostEnrollments_Begin(r, RecordsEnrollmentBodies)
    \/ \E r \in Conns : PostEnrollments_GetClientById(r)
    \/ \E r \in Conns : PostEnrollments_GetProgramById(r)
    \/ \E r \in Conns : PostEnrollments_CreateEnrollment(r)
    \/ \E r \in Conns : DeleteEnrollment_Begin(r, StatsPathParams)
    \/ \E r \in Conns : DeleteEnrollment_DeleteEnrollment(r)
    \/ \E r \in Conns : GetClientDetails_Begin(r, DetailsParams)
    \/ \E r \in Conns : GetClientDetails_GetClientById(r)
    \/ \E r \in Conns : GetClientDetails_GetEnrollmentsByClientId(r)
    \/ \E r \in Conns : GetClientDetails_Visits(r)
    \/ \E r \in Conns : GetClientDetails_Notes(r)

SpecDetails == InitRecords /\ [][NextDetails]_vars

\* removal of programs and clients as the pages ask for it, while the client is
\* enrolled and unenrolled; the store it starts from is that of the clinical records
NextRemoval ==
    \/ \E r \in Conns : PostEnrollments_Begin(r, RecordsEnrollmentBodies)
    \/ \E r \in Conns : PostEnrollments_GetClientById(r)
    \/ \E r \in Conns : PostEnrollments_GetProgramById(r)
    \/ \E r \in Conns : PostEnrollments_CreateEnrollment(r)
    \/ \E r \in Conns : DeleteEnrollment_Begin(r, StatsPathParams)
    \/ \E r \in Conns : DeleteEnrollment_DeleteEnrollment(r)
    \/ \E r \in Conns : DeleteProgram_Unrouted(r, DetailsParams)
    \/ \E r \in Conns : DeleteClient_Unrouted(r, DetailsParams)

SpecRemoval == InitRecords /\ [][NextRemoval]_vars

\* enrollments with an assessment, for the registered client and program
NextAssessment ==
    \/ \E r \in Conns : PostEnrollments_Begin(r, AssessmentEnrollmentBodies)
    \/ \E r \in Conns : PostEnrollments_GetClientById(r)
    \/ \E r \in Conns : PostEnrollments_GetProgramById(r)
    \/ \E r \in Conns : PostEnrollments_CreateEnrollment(r)
    \/ \E r \in Conns : DeleteEnrollment_Begin(r, StatsPathParams)
    \/ \E r \in Conns : DeleteEnrollment_DeleteEnrollment(r)

SpecAssessment == InitRecords /\ [][NextAssessment]_vars

\* the client registry used by one caller, one request at a time: registrations
\* with and without a clientId, over the turn of a year
NextSequentialClients ==
    \/ \E r \in GateConns : PostClients_Begin(r, ClientBodies)
    \/ \E r \in GateConns : PostClients_SelectLatest(r)
    \/ \E r \in GateConns : PostClients_InsertClient(r, clientSerial < MaxClientSerial)
    \/ NewYear

SpecSequentialClients == Init /\ [][NextSequentialClients]_vars

\* requests are sent only while the serial of enrollments.id has a value left for
\* each enrollment request in flight, so that no insert waits for the bound
EnrollmentAdmitted ==
    enrollmentSerial + Cardinality({ r \in Conns : reqs[r].route = PostEnrollments })
        < MaxEnrollmentSerial

PostEnrollments_Admit(r, bodies) ==
    EnrollmentAdmitted /\ PostEnrollments_Begin(r, bodies)

\* what the handler on connection r does once its awaited storage call returns
Continue(r) ==
    \/ PostEnrollments_GetClientById(r)
    \/ PostEnrollments_GetProgramById(r)
    \/ PostEnrollments_CreateEnrollment(r)
    \/ DeleteEnrollment_DeleteEnrollment(r)

\* enrolling and unenrolling the registered client, with every storage call
\* returning and every handler resumed by the event loop in the end
NextLive ==
    \/ \E r \in Conns : PostEnrollments_Admit(r, RecordsEnrollmentBodies)
    \/ \E r \in Conns : DeleteEnrollment_Begin(r, StatsPathParams)
    \/ \E r \in Conns : Continue(r)

SpecLive ==
    InitRecords /\ [][NextLive]_vars /\ \A r \in Conns : WF_vars(Continue(r))

\* the gate and the validation in front of the routes that write: all six of them,
\* one request at a time
NextGate ==
    \/ \E r \in GateConns : PostPrograms_Begin(r, FormProgramBodies)
    \/ \E r \in GateConns : PostPrograms_GetProgramByCode(r)
    \/ \E r \in GateConns : PostPrograms_CreateProgram(r)
    \/ \E r \in GateConns : PostClients_Begin(r, GateClientBodies)
    \/ \E r \in GateConns : PostClients_SelectLatest(r)
    \/ \E r \in GateConns : PostClients_InsertClient(r, clientSerial < MaxClientSerial)
    \/ \E r \in GateConns : PostEnrollments_Begin(r, RecordsEnrollmentBodies)
    \/ \E r \in GateConns : PostEnrollments_GetClientById(r)
    \/ \E r \in GateConns : PostEnrollments_GetProgramById(r)
    \/ \E r \in GateConns : PostEnrollments_CreateEnrollment(r)
    \/ \E r \in GateConns : DeleteEnrollment_Begin(r, StatsPathParams)
    \/ \E r \in GateConns : DeleteEnrollment_DeleteEnrollment(r)
    \/ \E r \in GateConns : PostVisits_Begin(r, VisitBodies)
    \/ \E r \in GateConns : PostVisits_CreateVisit(r)
    \/ \E r \in GateConns : PostNotes_Begin(r, NoteBodies)
    \/ \E r \in GateConns : PostNotes_CreateNote(r)

SpecGate == Init /\ [][NextGate]_vars

\* identity assignment far into the life of the registry.  The store it starts from
\* is the one left by: a registration without clientId (row 1, sequence 001), then
\* latest - 2 registrations that supply row 1's clientId and are rejected, each
\* using up a value of the serial, then a registration without clientId (row
\* latest, sequence 002).
IdentityClients(latest) ==
    IF latest = 0 THEN {}
    ELSE { [id |-> i, clientId |-> FormatClientId(MaxYear, IF i = 1 THEN 1 ELSE 2),
            name |-> <<"a","l">>, phone |-> <<"0","7">>] : i \in {1, latest} }

InitIdentity ==
    /\ programs = {} /\ programSerial = 0
    /\ enrollments = {} /\ enrollmentSerial = 0
    /\ visits = {} /\ visitSerial = 0
    /\ notes = {} /\ noteSerial = 0
    /\ year = MaxYear
    /\ reqs = [r \in Conns |-> Idle]
    /\ sent = NoResp
    /\ \E latest \in 0..MaxLatestId :
         clients = IdentityClients(latest) /\ clientSerial = latest

NextIdentity ==
    \/ \E r \in Conns : PostClients_Begin(r, FormClientBodies)
    \/ \E r \in Conns : PostClients_SelectLatest(r)
    \/ \E r \in Conns : PostClients_InsertClient(r, Cardinality(clients) < MaxIdentityRows)

SpecIdentity == InitIdentity /\ [][NextIdentity]_vars

(* ------------------------------- claims -------------------------------- *)
\* connection r takes the step
Step(r) == reqs'[r] # reqs[r]

\* C1: in every reachable state there is at most one enrollment row for each
\* (clientId, programId) pair, whatever POST /api/enrollments and DELETE requests
\* interleaved before.
C1_EnrollmentPairUnique ==
    \A e1 \in enrollments, e2 \in enrollments :
        (e1.clientId = e2.clientId /\ e1.programId = e2.programId) => e1 = e2

\* C1 witness: an insert for an enrolled pair was just rejected and the pair's row
\* is the one stored before.
C1_Witness ==
    /\ sent.route = PostEnrollments
    /\ sent.status \in {409, 500}
    /\ \E e \in enrollments :
         e.clientId = sent.input.clientId /\ e.programId = sent.input.programId

\* C2 (as claimed): whenever createEnrollment runs for a pair that already has an
\* enrollment row, the request is answered 409 with an 'already enrolled' message
\* and the table is unchanged.
C2_DuplicateEnrollmentIs409 ==
    [][\A r \in Conns :
          ( /\ At(r, PostEnrollments, "createEnrollment")
            /\ Step(r)
            /\ \E e \in enrollments : /\ e.clientId = reqs[r].input.clientId
                                      /\ e.programId = reqs[r].input.programId )
          => ( /\ sent'.status = 409
               /\ Includes(sent'.message, <<"already", "enrolled">>)
               /\ enrollments' = enrollments )]_vars

\* C3: POST /api/enrollments answers 404 and inserts nothing when the client is
\* missing, and likewise when the client exists and the program is missing; the
\* program is looked up only after the client was found, and a row is inserted only
\* by a request that passed both checks, for a client and a program that exist.
C3_MissingParentIs404 ==
    [][/\ \A r \in Conns :
            /\ ( /\ At(r, PostEnrollments, "getClientById") /\ Step(r)
                 /\ ~\E c \in clients : c.id = reqs[r].input.clientId )
               => ( /\ sent'.status = 404
                    /\ sent'.message = <<"Client", "not", "found">>
                    /\ enrollments' = enrollments )
            /\ ( /\ At(r, PostEnrollments, "getClientById") /\ Step(r)
                 /\ \E c \in clients : c.id = reqs[r].input.clientId )
               => ( /\ At(r, PostEnrollments, "getProgramById")'
                    /\ enrollments' = enrollments )
            /\ ( /\ At(r, PostEnrollments, "getProgramById") /\ Step(r)
                 /\ ~\E p \in programs : p.id = reqs[r].input.programId )
               => ( /\ sent'.status = 404
                    /\ sent'.message = <<"Program", "not", "found">>
                    /\ enrollments' = enrollments )
            /\ At(r, PostEnrollments, "getProgramById")
               => \E c \in clients : c.id = reqs[r].input.clientId
            /\ At(r, PostEnrollments, "createEnrollment")
               => /\ \E c \in clients : c.id = reqs[r].input.clientId
                  /\ \E p \in programs : p.id = reqs[r].input.programId
       /\ \A e \in enrollments' \ enrollments :
            \E r \in Conns :
               /\ At(r, PostEnrollments, "createEnrollment") /\ Step(r)
               /\ e.clientId = reqs[r].input.clientId
               /\ e.programId = reqs[r].input.programId]_vars

\* C3 witness: a request whose client exists was just answered 404 for its missing
\* program.
C3_Witness ==
    /\ sent.route = PostEnrollments
    /\ sent.status = 404
    /\ sent.message = <<"Program", "not", "found">>
    /\ \E c \in clients : c.id = sent.input.clientId
    /\ ~\E p \in programs : p.id = sent.input.programId

\* C4: the unenroll statement removes exactly the rows of its pair; the route
\* answers 204 exactly when such a row existed and 404 otherwise, never 500; and a
\* second unenroll of the same pair right after another one is answered 404.
C4_DeleteEnrollmentFound ==
    [][\A r \in Conns :
          (At(r, DeleteEnrollment, "deleteEnrollment") /\ Step(r))
          => LET matching == { e \in enrollments :
                                 /\ e.clientId = parseInt(reqs[r].input.clientId).val
                                 /\ e.programId = parseInt(reqs[r].input.programId).val }
             IN  /\ sent'.status = (IF matching # {} THEN 204 ELSE 404)
                 /\ enrollments' = enrollments \ matching
                 /\ ( /\ sent.route = DeleteEnrollment
                      /\ sent.status \in {204, 404}
                      /\ sent.input = reqs[r].input )
                    => sent'.status = 404]_vars

\* C4 witness: an unenroll was just answered 204 and the pair has no row left,
\* while another enrollment is still stored.
C4_Witness ==
    /\ sent.route = DeleteEnrollment
    /\ sent.status = 204
    /\ enrollments # {}
    /\ ~\E e \in enrollments :
          /\ e.clientId = parseInt(sent.input.clientId).val
          /\ e.programId = parseInt(sent.input.programId).val

\* C5 (as claimed): in every reachable state every stored program's code equals
\* its own upper-case form, whatever case the requests used.
C5_StoredCodeUppercase ==
    \A p \in programs : p.code = toUpperCase(p.code)

\* C6 (as claimed): a POST /api/programs whose code equals a stored program's code
\* ignoring case is answered 409 at its code check and stores nothing.
C6_SameCodeAnyCaseIs409 ==
    [][\A r \in Conns :
          ( /\ At(r, PostPrograms, "getProgramByCode") /\ Step(r)
            /\ \E p \in programs :
                 toUpperCase(p.code) = toUpperCase(reqs[r].input.code) )
          => (sent'.status = 409 /\ programs' = programs)]_vars

\* the sequence part of a clientId of the form HIS-<year>-<sequence>, <<>> for a
\* text of another form
SequencePart(clientId, y) ==
    LET head == ClientPrefix \o <<"-">> \o String(y) \o <<"-">>
    IN  IF Len(clientId) > Len(head) /\ SubSeq(clientId, 1, Len(head)) = head
        THEN SubSeq(clientId, Len(head) + 1, Len(clientId))
        ELSE <<>>

\* a registration without clientId was just answered 201
GeneratedIdReturned ==
    /\ sent.route = PostClients
    /\ sent.status = 201
    /\ Falsy(sent.input.clientId)

C8_ClientIdsUniqueNothingLost ==
    [][/\ \A c1 \in clients', c2 \in clients' :
            c1.clientId = c2.clientId => c1 = c2
       /\ clients \subseteq clients'
       /\ \A c \in clients' \ clients : \A d \in clients : d.id # c.id]_vars

\* C8 witness: two registrations without clientId raced; the second insert was
\* rejected and the first one's client is stored.
C8_Witness ==
    /\ sent.route = PostClients
    /\ sent.status = 500
    /\ Falsy(sent.input.clientId)
    /\ clients # {}

\* C9 (as claimed): an insert of a clientId that a stored client already has is
\* answered 409 and leaves the stored clients unchanged.
C9_ClientIdCollisionIs409 ==
    [][\A r \in Conns :
          ( /\ At(r, PostClients, "insertClient") /\ Step(r)
            /\ \E c \in clients : c.clientId = reqs[r].clientId )
          => (sent'.status = 409 /\ clients' = clients)]_vars

\* C10 (as claimed): whatever clients are stored, searchClients returns no client
\* for the empty query and for every query that is only white space.
C10_BlankQueryFindsNothing ==
    \A query \in SearchInputs :
        (query # Undefined /\ Blank(query)) => searchClients(query) = {}

\* C11 (as claimed): for every non-empty query, searchClients returns exactly the
\* stored clients whose name, clientId or phone contains the query as a literal
\* substring, compared without regard to case; no character of the query acts as
\* a wildcard.
C11_SearchIsLiteralSubstring ==
    \A query \in SearchInputs :
        ~Falsy(query)
        => searchClients(query)
           = { c \in clients :
                 \/ Includes(toLowerCase(c.name), toLowerCase(query))
                 \/ Includes(toLowerCase(c.clientId), toLowerCase(query))
                 \/ Includes(toLowerCase(c.phone), toLowerCase(query)) }

\* C12: getProgramsWithEnrollmentCount lists all stored programs, and its result
\* holds each listed program exactly once, with enrollmentCount equal to the number
\* of enrollment rows of that program when the rows are counted, 0 for a program
\* without one.
C12_EveryProgramWithItsCount ==
    [][\A r \in Conns :
          /\ (At(r, GetProgramsStats, "getPrograms") /\ Step(r))
             => reqs'[r].programList = programs
          /\ (At(r, GetProgramsStats, "enrollmentCounts") /\ Step(r))
             => /\ sent'.status = 200
                /\ \A program \in reqs[r].programList :
                      \E row \in sent'.body :
                         /\ row.id = program.id /\ row.code = program.code
                         /\ row.enrollmentCount
                            = Cardinality({ e \in enrollments : e.programId = program.id })
                /\ \A row \in sent'.body : \E program \in programs : program.id = row.id
                /\ \A row1 \in sent'.body, row2 \in sent'.body :
                      row1.id = row2.id => row1 = row2]_vars

\* C12 witness: the result just returned holds a program with enrollmentCount 0
\* next to one with an enrollment.
C12_Witness ==
    /\ sent.route = GetProgramsStats
    /\ sent.status = 200
    /\ \E row1 \in sent.body, row2 \in sent.body :
         row1.enrollmentCount = 0 /\ row2.enrollmentCount > 0

\* C13: GET /api/stats answers 200 with totalClients the number of client rows,
\* activePrograms the number of program rows and newEnrollments the number of
\* enrollment rows, each as its table stood when the route read it: programs are
\* counted without regard to any status and enrollments whatever their status or
\* age.
C13_StatsCountAllRows ==
    [][\A r \in Conns :
          /\ (At(r, GetStats, "getClients") /\ Step(r))
             => Len(reqs'[r].clients) = Cardinality(clients)
          /\ (At(r, GetStats, "getPrograms") /\ Step(r))
             => Cardinality(reqs'[r].programs) = Cardinality(programs)
          /\ (At(r, GetStats, "getEnrollments") /\ Step(r))
             => /\ sent'.status = 200
                /\ sent'.body.totalClients = Len(reqs[r].clients)
                /\ sent'.body.totalClients <= Cardinality(clients)
                /\ sent'.body.activePrograms = Cardinality(reqs[r].programs)
                /\ sent'.body.activePrograms <= Cardinality(programs)
                /\ sent'.body.newEnrollments = Cardinality(enrollments)]_vars

\* C13 witness: the figures just returned count a client, two programs and an
\* enrollment whose status is not active.
C13_Witness ==
    /\ sent.route = GetStats
    /\ sent.status = 200
    /\ sent.body.totalClients = 1
    /\ sent.body.activePrograms = 2
    /\ sent.body.newEnrollments = 1
    /\ \E e \in enrollments : e.status # "active"

\* the routes registered with app.post or app.delete
MutatingRoutes ==
    {PostPrograms, PostClients, PostEnrollments, DeleteEnrollment, PostVisits, PostNotes}

C15_DetailsOrNotFound ==
    [][\A r \in Conns :
          /\ (At(r, GetClientDetails, "getClientById") /\ Step(r))
             => IF \E c \in clients : c.id = parseInt(reqs[r].input).val
                THEN /\ At(r, GetClientDetails, "getEnrollmentsByClientId")'
                     /\ reqs'[r].client \in clients
                     /\ reqs'[r].client.id = parseInt(reqs[r].input).val
                ELSE /\ sent'.status = 404
                     /\ sent'.message = <<"Client", "not", "found">>
          /\ (At(r, GetClientDetails, "getEnrollmentsByClientId") /\ Step(r))
             => /\ \A e \in enrollments :
                      e.clientId = reqs[r].client.id
                      => Cardinality({ row \in reqs'[r].enrollments :
                                         row.id = e.id /\ row.program \in programs
                                         /\ row.program.id = e.programId }) = 1
                /\ { row.id : row \in reqs'[r].enrollments }
                   = { e.id : e \in { f \in enrollments :
                                        f.clientId = reqs[r].client.id } }
          /\ (At(r, GetClientDetails, "visits") /\ Step(r))
             => /\ \A v \in visits :
                      v.clientId = reqs[r].client.id
                      => Cardinality({ row \in reqs'[r].visits :
                                         row.id = v.id /\ row.program \in programs
                                         /\ row.program.id = v.programId }) = 1
                /\ { row.id : row \in reqs'[r].visits }
                   = { v.id : v \in { w \in visits : w.clientId = reqs[r].client.id } }
          /\ (At(r, GetClientDetails, "notes") /\ Step(r))
             => /\ sent'.status = 200
                /\ sent'.body.id = reqs[r].client.id
                /\ sent'.body.clientId = reqs[r].client.clientId
                /\ sent'.body.enrollments = reqs[r].enrollments
                /\ sent'.body.visits = reqs[r].visits
                /\ \A n \in notes :
                      n.clientId = reqs[r].client.id
                      => Cardinality({ row \in sent'.body.notes : row.id = n.id }) = 1
                /\ \A row \in sent'.body.notes :
                      /\ \E n \in notes : n.id = row.id /\ n.clientId = reqs[r].client.id
                      /\ IF "programId" \in DOMAIN row
                         THEN row.program \in programs /\ row.program.id = row.programId
                         ELSE "program" \notin DOMAIN row]_vars

\* C15 witness: the details just returned hold an enrollment, a visit, a note with
\* its program and a note without one.
C15_Witness ==
    /\ sent.route = GetClientDetails
    /\ sent.status = 200
    /\ sent.body.enrollments # {}
    /\ sent.body.visits # {}
    /\ \E n1 \in sent.body.notes, n2 \in sent.body.notes :
         "program" \in DOMAIN n1 /\ "program" \notin DOMAIN n2

\* C16: when GET /api/clients/A/details reads the enrollments, every stored
\* enrollment of A (one that a POST /api/enrollments created and no unenroll has
\* removed) gives exactly one entry for its program P, and that entry embeds the
\* program with P's code; the response carries the entries as read.
C16_EnrolledProgramInDetails ==
    [][\A r \in Conns :
          /\ (At(r, GetClientDetails, "getEnrollmentsByClientId") /\ Step(r))
             => \A e \in enrollments :
                   e.clientId = parseInt(reqs[r].input).val
                   => /\ Cardinality({ row \in reqs'[r].enrollments :
                                         row.programId = e.programId }) = 1
                      /\ \A row \in reqs'[r].enrollments :
                            row.programId = e.programId
                            => \E p \in programs :
                                  p.id = e.programId /\ row.program.code = p.code
          /\ (At(r, GetClientDetails, "notes") /\ Step(r))
             => sent'.body.enrollments = reqs[r].enrollments]_vars

\* C16 witness: the details just returned list the enrollment in program TB that is
\* stored for the client, after an earlier enrollment of the pair was removed.
C16_Witness ==
    /\ sent.route = GetClientDetails
    /\ sent.status = 200
    /\ \E e \in enrollments, row \in sent.body.enrollments :
         /\ e.id = 2 /\ row.id = e.id
         /\ e.clientId = sent.body.id
         /\ row.program.code = <<"T","B">>

PostRoutes == {PostPrograms, PostClients, PostEnrollments, PostVisits, PostNotes}

\* the fields a body of the route cannot do without: the NOT NULL columns without
\* a default, and what the route's own schema requires
RequiredFields(route) ==
    IF route = PostPrograms THEN {"code"}
    ELSE IF route = PostClients THEN {"name", "phone"}
    ELSE IF route = PostEnrollments THEN {"clientId", "programId", "enrollDate"}
    ELSE IF route = PostVisits THEN {"clientId", "programId", "doctor", "purpose"}
    ELSE {"clientId", "content", "createdBy"}

\* C20: a POST request whose body lacks a required field is answered 400 by the
\* step that receives it: no handler goes on to a storage call with such a body,
\* and the step that answers 400 leaves every table and serial as it was.
C20_InvalidBodyIs400 ==
    [][/\ \A r \in Conns :
            reqs'[r].route \in PostRoutes
            => RequiredFields(reqs'[r].route) \subseteq DOMAIN reqs'[r].input
       /\ (sent'.status = 400 /\ sent'.route \in PostRoutes)
          => /\ ~(RequiredFields(sent'.route) \subseteq DOMAIN sent'.input)
             /\ sent'.message = ValidationFailed
             /\ db' = db /\ reqs' = reqs]_vars

\* C20 witness: a visit without doctor and purpose was just answered 400 while its
\* client and program are stored.
C20_Witness ==
    /\ sent.route = PostVisits
    /\ sent.status = 400
    /\ \E c \in clients : c.id = sent.input.clientId
    /\ programs # {}

\* C17 (as claimed): a request to delete a program that has an enrollment is
\* answered 409 and the program stays stored; a step removes a program only when
\* no enrollment references it.
C17_DeleteProgramInUseIs409 ==
    [][/\ ( /\ sent'.route = DeleteProgram
            /\ \E e \in enrollments : e.programId = parseInt(sent'.input).val )
          => (sent'.status = 409 /\ programs' = programs)
       /\ \A p \in programs \ programs' :
            ~\E e \in enrollments : e.programId = p.id]_vars

\* C18 (as claimed): a request to delete a client that has an enrollment is
\* answered 409 and the client and its enrollments stay stored; a step removes a
\* client only when no enrollment references it.
C18_DeleteClientInUseIs409 ==
    [][/\ ( /\ sent'.route = DeleteClient
            /\ \E e \in enrollments : e.clientId = parseInt(sent'.input).val )
          => (sent'.status = 409 /\ clients' = clients /\ enrollments' = enrollments)
       /\ \A c \in clients \ clients' :
            ~\E e \in enrollments : e.clientId = c.id]_vars

\* C21 (as claimed): in every reachable state a stored enrollment's symptomSeverity,
\* if it has one, is mild, moderate or severe, and its riskLevel, if it has one, is
\* low, medium or high, whatever bodies were posted.
C21_AssessmentWithinEnums ==
    \A e \in enrollments :
        /\ "symptomSeverity" \in DOMAIN e
           => e.symptomSeverity \in {"mild", "moderate", "severe"}
        /\ "riskLevel" \in DOMAIN e => e.riskLevel \in {"low", "medium", "high"}

\* C22: after every step each enrollment and each visit is of a stored client and
\* a stored program, and each note is of a stored client and, when it has a
\* programId, of a stored program; an insert of a visit or a note whose client or
\* program is missing stores no row.
C22_ReferencesResolve ==
    [][/\ \A e \in enrollments' :
            /\ \E c \in clients' : c.id = e.clientId
            /\ \E p \in programs' : p.id = e.programId
       /\ \A v \in visits' :
            /\ \E c \in clients' : c.id = v.clientId
            /\ \E p \in programs' : p.id = v.programId
       /\ \A n \in notes' :
            /\ \E c \in clients' : c.id = n.clientId
            /\ "programId" \in DOMAIN n => \E p \in programs' : p.id = n.programId
       /\ \A r \in Conns :
            /\ ( /\ At(r, PostVisits, "createVisit") /\ Step(r)
                 /\ \/ ~\E c \in clients : c.id = reqs[r].input.clientId
                    \/ ~\E p \in programs : p.id = reqs[r].input.programId )
               => (visits' = visits /\ sent'.status = 500)
            /\ ( /\ At(r, PostNotes, "createNote") /\ Step(r)
                 /\ \/ ~\E c \in clients : c.id = reqs[r].input.clientId
                    \/ /\ "programId" \in DOMAIN reqs[r].input
                       /\ ~\E p \in programs : p.id = reqs[r].input.programId )
               => (notes' = notes /\ sent'.status = 500)]_vars

\* C22 witness: a visit for a program that is not stored was just refused while
\* its client is stored, and no visit is stored.
C22_Witness ==
    /\ sent.route = PostVisits
    /\ sent.status = 500
    /\ \E c \in clients : c.id = sent.input.clientId
    /\ ~\E p \in programs : p.id = sent.input.programId
    /\ visits = {}

\* C23 (as claimed): however two POST /api/programs requests with the same code
\* interleave, at most one program with the code is stored, and the request whose
\* insert finds the code taken is answered 409, not 500.
C23_ConcurrentSameCodeIs409 ==
    [][/\ \A p1 \in programs', p2 \in programs' : p1.code = p2.code => p1 = p2
       /\ \A r \in Conns :
            ( /\ At(r, PostPrograms, "createProgram") /\ Step(r)
              /\ \E p \in programs : p.code = reqs[r].input.code )
            => (sent'.status = 409 /\ sent'.status # 500)]_vars

\* C24: when createClient runs without a clientId, the sequence number of the
\* clientId it derives is the largest id among the clients stored when it reads
\* them, plus 1, and 1 when none is stored; the insert that follows uses that
\* clientId.
C24_SequenceIsMaxIdPlusOne ==
    [][\A r \in Conns :
          /\ (At(r, PostClients, "selectLatest") /\ Step(r))
             => LET seq == SequencePart(reqs'[r].clientId, reqs[r].year)
                IN  /\ seq # <<>> /\ AllDigits(seq)
                    /\ IF clients = {} THEN ParseDigits(seq, 0) = 1
                       ELSE \E c \in clients :
                               /\ \A d \in clients : d.id <= c.id
                               /\ ParseDigits(seq, 0) = c.id + 1
          /\ (At(r, PostClients, "insertClient") /\ Step(r))
             => \A c \in clients' \ clients : c.clientId = reqs[r].clientId]_vars

\* C24 witness: a registration without clientId just stored, next to two clients,
\* a client whose sequence number is above 2.
C24_Witness ==
    /\ GeneratedIdReturned
    /\ Cardinality(clients) = 3
    /\ \E c \in sent.body : ParseDigits(SequencePart(c.clientId, year), 0) > 2

\* C25 (as claimed): the read of the latest id and the insert of createClient act
\* as one step: two registrations without clientId that are in flight together
\* never hold the same derived clientId, and the insert of each is answered 201.
C25_GenerationAppearsAtomic ==
    [][/\ \A r1 \in Conns, r2 \in Conns :
            ( /\ r1 # r2
              /\ At(r1, PostClients, "insertClient")' /\ Falsy(reqs'[r1].input.clientId)
              /\ At(r2, PostClients, "insertClient")' /\ Falsy(reqs'[r2].input.clientId) )
            => reqs'[r1].clientId # reqs'[r2].clientId
       /\ \A r \in Conns :
            ( /\ At(r, PostClients, "insertClient") /\ Step(r)
              /\ Falsy(reqs[r].input.clientId) )
            => sent'.status = 201]_vars

\* C26 (as claimed): when requests run one at a time, a registration without
\* clientId never derives a clientId that a stored client holds, whatever clientIds
\* earlier registrations supplied.
C26_SequentialGenerationNeverCollides ==
    \A r \in Conns :
        (At(r, PostClients, "insertClient") /\ Falsy(reqs[r].input.clientId))
        => ~\E c \in clients : c.clientId = reqs[r].clientId

\* C27 (as claimed): the three figures of GET /api/stats are those of one state of
\* the store.  In every state of the store each enrollment is of a stored client
\* and a stored program and no pair is enrolled twice, so figures taken from one
\* state never show more enrollments than there are pairs of a client and a
\* program.
C27_StatsFromOneState ==
    sent.route = GetStats
    => /\ sent.body.newEnrollments <= sent.body.totalClients * sent.body.activePrograms
       /\ sent.body.newEnrollments > 0
          => (sent.body.totalClients > 0 /\ sent.body.activePrograms > 0)

\* C28: an unenroll that finds its row (answered 204) removes that one row, of its
\* pair, and nothing else: every other enrollment, every client, program, visit
\* and note and every serial stay as they were; an unenroll that finds no row
\* (answered 404) leaves the whole store as it was.
C28_UnenrollChangesOnlyItsRow ==
    [][\A r \in Conns :
          (At(r, DeleteEnrollment, "deleteEnrollment") /\ Step(r))
          => /\ sent'.status = 204
                => /\ Cardinality(enrollments \ enrollments') = 1
                   /\ enrollments' \subseteq enrollments
                   /\ \A e \in enrollments \ enrollments' :
                         /\ e.clientId = reqs[r].clientId
                         /\ e.programId = reqs[r].programId
                   /\ UNCHANGED <<programs, programSerial, clients, clientSerial,
                                  enrollmentSerial, visits, visitSerial, notes,
                                  noteSerial>>
             /\ sent'.status # 204 => (sent'.status = 404 /\ db' = db)]_vars

\* C28 witness: an unenroll was just answered 204 and the enrollment of another
\* client in the same program is still stored.
C28_Witness ==
    /\ sent.route = DeleteEnrollment
    /\ sent.status = 204
    /\ \E e \in enrollments :
         /\ e.programId = parseInt(sent.input.programId).val
         /\ e.clientId # parseInt(sent.input.clientId).val

\* C29: an unenroll answered 204 leaves no row of its pair behind, and an insert
\* for a pair that has no row is answered 201 and stores one new row for the pair,
\* under an id no stored row has, with the status of the body or, when the body
\* gives none, "active".
C29_ReenrollAfterUnenroll ==
    [][\A r \in Conns :
          /\ ( /\ At(r, DeleteEnrollment, "deleteEnrollment") /\ Step(r)
               /\ sent'.status = 204 )
             => ~\E e \in enrollments' : /\ e.clientId = reqs[r].clientId
                                         /\ e.programId = reqs[r].programId
          /\ ( /\ At(r, PostEnrollments, "createEnrollment") /\ Step(r)
               /\ ~\E e \in enrollments : /\ e.clientId = reqs[r].input.clientId
                                           /\ e.programId = reqs[r].input.programId )
             => /\ sent'.status = 201
                /\ Cardinality(enrollments' \ enrollments) = 1
                /\ sent'.body = enrollments' \ enrollments
                /\ \A row \in enrollments' \ enrollments :
                      /\ \A e \in enrollments : e.id # row.id
                      /\ row.clientId = reqs[r].input.clientId
                      /\ row.programId = reqs[r].input.programId
                      /\ row.status = IF "status" \in DOMAIN reqs[r].input
                                      THEN reqs[r].input.status ELSE "active"]_vars

\* C29 witness: the pair was enrolled, unenrolled and enrolled again: the row just
\* returned with 201 is the second one the table handed out, it is active, and it
\* is the only one stored.
C29_Witness ==
    /\ sent.route = PostEnrollments
    /\ sent.status = 201
    /\ enrollments = sent.body
    /\ \E row \in sent.body : row.id = 2 /\ row.status = "active"

\* C30: every request in flight is answered in the end; the step that ends a
\* request sends the one response of that request and a step that does not end it
\* sends none; an insert the database rejects is answered 500 with the route's
\* fixed message.
C30_EveryRequestAnswered ==
    /\ \A r \in Conns : (reqs[r] # Idle) ~> (reqs[r] = Idle)
    /\ [][\A r \in Conns :
              /\ (reqs[r] # Idle /\ reqs'[r] = Idle)
                 => /\ sent'.route = reqs[r].route
                    /\ sent'.input = reqs[r].input
                    /\ sent'.status \in {201, 204, 404, 409, 500}
              /\ (reqs[r] # Idle /\ reqs'[r] # Idle /\ Step(r)) => sent' = NoResp
              /\ ( /\ At(r, PostEnrollments, "createEnrollment") /\ Step(r)
                   /\ \E e \in enrollments : /\ e.clientId = reqs[r].input.clientId
                                             /\ e.programId = reqs[r].input.programId )
                 => /\ reqs'[r] = Idle
                    /\ sent'.status = 500
                    /\ sent'.message = <<"Failed", "to", "create", "enrollment">>]_vars

\* C30 witness: an insert the database rejected was just answered 500 and no
\* request is left in flight.
C30_Witness ==
    /\ sent.route = PostEnrollments
    /\ sent.status = 500
    /\ sent.message = <<"Failed", "to", "create", "enrollment">>
    /\ \A r \in Conns : reqs[r] = Idle

====
